---- MODULE Spec2Model ----
(***************************************************************************)
(* A model of src/main.py: the Flask application that serves /health and   *)
(* /api/horoscope on top of the Swiss Ephemeris engine.                    *)
(*                                                                         *)
(* Numbers.  Python floats are modelled as scaled integers:                *)
(*   - ecliptic longitudes returned by the engine: millidegrees            *)
(*   - values rounded to 2 decimals (round(x, 2)):  centidegrees           *)
(*   - latitude / longitude of the request:         1/10000 degree         *)
(* Strings that the code parses are sequences of one-character strings, so *)
(* that strptime, float() and int() are modelled by what they accept.      *)
(***************************************************************************)
EXTENDS Integers, Sequences, FiniteSets, TLC

VARIABLES
    ephe_path,   \* process-wide configuration of the engine (main.py:11)
    now,         \* the wall clock read by datetime.now() (main.py:216)
    req          \* req[r]: the request being served by worker r, with the
                 \* locals of calculate_horoscope and its response

vars == <<ephe_path, now, req>>

----------------------------------------------------------------------------
(* Bounds of the model. *)

\* Number of clock ticks the model follows.
MaxClock == 2

----------------------------------------------------------------------------
(* Characters and strings. *)

\* F(v), with v evaluated once before F is applied to its value.
With(v, F(_)) == CHOOSE x \in {F(y) : y \in {v}} : TRUE

Digits == {"0", "1", "2", "3", "4", "5", "6", "7", "8", "9"}

DigitVal(c) ==
    CASE c = "0" -> 0 [] c = "1" -> 1 [] c = "2" -> 2 [] c = "3" -> 3
      [] c = "4" -> 4 [] c = "5" -> 5 [] c = "6" -> 6 [] c = "7" -> 7
      [] c = "8" -> 8 [] c = "9" -> 9

IsDigits(s) == Len(s) >= 1 /\ \A i \in 1..Len(s) : s[i] \in Digits

\* The number written by the first k digits of s.
RECURSIVE NumValTo(_, _)
NumValTo(s, k) ==
    IF k = 0 THEN 0 ELSE 10 * NumValTo(s, k - 1) + DigitVal(s[k])

\* The number written by a string of digits.
NumVal(s) == NumValTo(s, Len(s))

\* The positions of the separator in s, and the n-th of them.
SepPositions(s, sep) == {i \in 1..Len(s) : s[i] = sep}

SepAt(s, sep, n) ==
    CHOOSE i \in SepPositions(s, sep) :
        Cardinality({j \in SepPositions(s, sep) : j < i}) = n - 1

\* str.split(sep) on a one-character separator.
Split(s, sep) ==
    [n \in 1..(Cardinality(SepPositions(s, sep)) + 1) |->
        SubSeq(s,
               IF n = 1 THEN 1 ELSE SepAt(s, sep, n - 1) + 1,
               IF n = Cardinality(SepPositions(s, sep)) + 1
               THEN Len(s) ELSE SepAt(s, sep, n) - 1)]

----------------------------------------------------------------------------
(* JSON / query-string values held by `data`. *)

Missing == [t |-> "missing", s |-> <<>>, n |-> 0]   \* key not in data
Null    == [t |-> "null",    s |-> <<>>, n |-> 0]   \* JSON null
Str(s)  == [t |-> "str",     s |-> s,    n |-> 0]
Num(n)  == [t |-> "num",     s |-> <<>>, n |-> n]   \* JSON integer

FieldNames ==
    {"birth_date", "birth_time", "latitude", "longitude", "timezone_offset"}

\* data.get(key): None when the key is absent.
Get(d, k) == IF d.f[k].t = "missing" THEN Null ELSE d.f[k]

\* Python truthiness of a value: `not v` is true of None, '' and 0.
Truthy(v) ==
    CASE v.t = "str" -> Len(v.s) > 0
      [] v.t = "num" -> v.n # 0
      [] OTHER       -> FALSE

----------------------------------------------------------------------------
(* float() and int() as applied to the optional fields (main.py:168-170).  *)
(* A conversion result is [ok, val, err]; err is the exception message.    *)

Ok(v)    == [ok |-> TRUE,  val |-> v, err |-> ""]
Raise(e) == [ok |-> FALSE, val |-> 0, err |-> e]

Unsigned(s) == IF Len(s) >= 1 /\ s[1] \in {"-", "+"} THEN Tail(s) ELSE s
SignOf(s)   == IF Len(s) >= 1 /\ s[1] = "-" THEN -1 ELSE 1

\* The fraction digits of a decimal literal as 1/10000 units.
Frac4(s) == NumVal(SubSeq(s \o <<"0", "0", "0", "0">>, 1, 4))

\* float(str): [sign] digits [ "." digits ], in 1/10000 units.
ParseFloat(s) ==
    With(Split(Unsigned(s), "."), LAMBDA p :
        IF Len(p) = 1 /\ IsDigits(p[1])
        THEN Ok(SignOf(s) * NumVal(p[1]) * 10000)
        ELSE IF Len(p) = 2 /\ (IsDigits(p[1]) \/ Len(p[1]) = 0)
                           /\ (IsDigits(p[2]) \/ Len(p[2]) = 0)
                           /\ Len(p[1]) + Len(p[2]) >= 1
        THEN Ok(SignOf(s) * (NumVal(p[1]) * 10000 + Frac4(p[2])))
        ELSE Raise("could not convert string to float"))

\* float(v)
ToFloat(v) ==
    CASE v.t = "num" -> Ok(v.n * 10000)
      [] v.t = "str" -> ParseFloat(v.s)
      [] OTHER       -> Raise("float() argument must be a string or a number")

\* int(str): [sign] digits only; "3.5" is a ValueError.
ParseInt(s) ==
    IF IsDigits(Unsigned(s)) THEN Ok(SignOf(s) * NumVal(Unsigned(s)))
    ELSE Raise("invalid literal for int() with base 10")

\* int(v)
ToInt(v) ==
    CASE v.t = "num" -> Ok(v.n)
      [] v.t = "str" -> ParseInt(v.s)
      [] OTHER       -> Raise("int() argument must be a string or a number")

----------------------------------------------------------------------------
(* calculate_julian_day (main.py:26-45). *)

IsLeap(y) == (y % 4 = 0 /\ y % 100 # 0) \/ y % 400 = 0

DaysInMonth(y, m) ==
    CASE m \in {1, 3, 5, 7, 8, 10, 12} -> 31
      [] m \in {4, 6, 9, 11}           -> 30
      [] OTHER                         -> IF IsLeap(y) THEN 29 ELSE 28

\* Days of the year before the first of month m.
DaysBeforeMonth(y, m) ==
    <<0, 31, 59, 90, 120, 151, 181, 212, 243, 273, 304, 334>>[m]
      + (IF m > 2 /\ IsLeap(y) THEN 1 ELSE 0)

\* date.toordinal(): 0001-01-01 is day 1 (proleptic Gregorian calendar).
Ordinal(y, m, d) ==
    (y - 1) * 365 + ((y - 1) \div 4) - ((y - 1) \div 100) + ((y - 1) \div 400)
      + DaysBeforeMonth(y, m) + d

\* date.max.toordinal(): 9999-12-31
MaxOrdinal == Ordinal(9999, 12, 31)

NoDate == [ok |-> FALSE, y |-> 0, m |-> 0, d |-> 0]

\* datetime.strptime(date_str, '%Y-%m-%d') (main.py:30): %Y is four digits,
\* %m and %d one or two digits in range; the date must exist and the year
\* be at least datetime.MINYEAR.  A non-string argument is a TypeError.
ParseDate(v) ==
    IF v.t # "str" THEN NoDate
    ELSE With(Split(v.s, "-"), LAMBDA p :
           IF ~ ( /\ Len(p) = 3
                  /\ IsDigits(p[1]) /\ Len(p[1]) = 4
                  /\ IsDigits(p[2]) /\ Len(p[2]) <= 2
                  /\ IsDigits(p[3]) /\ Len(p[3]) <= 2 )
           THEN NoDate
           ELSE With(<<NumVal(p[1]), NumVal(p[2]), NumVal(p[3])>>, LAMBDA n :
                  IF /\ n[1] >= 1
                     /\ n[2] \in 1..12
                     /\ n[3] \in 1..DaysInMonth(n[1], n[2])
                  THEN [ok |-> TRUE, y |-> n[1], m |-> n[2], d |-> n[3]]
                  ELSE NoDate))

NoTime == [ok |-> FALSE, h |-> 0, mi |-> 0]

\* datetime.strptime(time_str, '%H:%M') (main.py:31)
ParseTime(v) ==
    IF v.t # "str" THEN NoTime
    ELSE With(Split(v.s, ":"), LAMBDA p :
           IF ~ ( /\ Len(p) = 2
                  /\ IsDigits(p[1]) /\ Len(p[1]) <= 2
                  /\ IsDigits(p[2]) /\ Len(p[2]) <= 2 )
           THEN NoTime
           ELSE With(<<NumVal(p[1]), NumVal(p[2])>>, LAMBDA n :
                  IF n[1] \in 0..23 /\ n[2] \in 0..59
                  THEN [ok |-> TRUE, h |-> n[1], mi |-> n[2]]
                  ELSE NoTime))

\* The value None returned on failure (main.py:45).  A Julian Day jd is held
\* as [day, min] with jd = day + 1/2 + min/1440.
NoJD == [ok |-> FALSE, day |-> 0, min |-> 0]

\* The UTC moment of a parsed local date and time as [ord, min]: the
\* ordinal of its day and the minute of that day (main.py:34-37).
UtcMoment(dt, tm, timezone_offset) ==
    With(tm.h * 60 + tm.mi - 60 * timezone_offset, LAMBDA utc :
        [ord |-> Ordinal(dt.y, dt.m, dt.d) + (utc \div 1440),
         min |-> utc % 1440])

\* swe.julday of a UTC moment (main.py:40-41), or the failure value when
\* the moment is outside datetime's range (OverflowError at main.py:37).
JulianDayOf(utc) ==
    IF utc.ord < 1 \/ utc.ord > MaxOrdinal THEN NoJD
    ELSE [ok |-> TRUE, day |-> utc.ord + 1721424, min |-> utc.min]

\* A conversion that answers day 0 instead of the failure value.
calculate_julian_day_lenient(date_str, time_str, timezone_offset) ==
    With(<<ParseDate(date_str), ParseTime(time_str)>>, LAMBDA p :
        IF ~p[1].ok \/ ~p[2].ok THEN [ok |-> TRUE, day |-> 0, min |-> 0]
        ELSE With(UtcMoment(p[1], p[2], timezone_offset), JulianDayOf))

\* calculate_julian_day(date_str, time_str, timezone_offset): parse, shift
\* to UTC, then swe.julday of the UTC calendar date and hour; any exception
\* gives None (main.py:43-45).  Ordinal day n at 00:00 UTC is JD n + 1721424.5.
calculate_julian_day(date_str, time_str, timezone_offset) ==
    With(<<ParseDate(date_str), ParseTime(time_str)>>, LAMBDA p :
        IF ~p[1].ok \/ ~p[2].ok THEN NoJD
        ELSE With(UtcMoment(p[1], p[2], timezone_offset), JulianDayOf))

\* round(julian_day, 6) (main.py:211) as [day, micro]: day + micro/10^6.
RoundJD(jd) ==
    LET q     == (jd.min * 1000000) \div 1440
        r     == (jd.min * 1000000) % 1440
        micro == 500000 + q + (IF 2 * r > 1440 THEN 1 ELSE 0)
    IN  [day |-> jd.day + (micro \div 1000000), micro |-> micro % 1000000]

----------------------------------------------------------------------------
(* The Sign Mapper arithmetic shared by the planets and the houses. *)

\* The list `signs` (main.py:74-75 and 102-103).
signs ==
    <<"Aries", "Taurus", "Gemini", "Cancer", "Leo", "Virgo",
      "Libra", "Scorpio", "Sagittarius", "Capricorn", "Aquarius", "Pisces">>

\* signs[k] for a Python list of 12: indices -12..11 are accepted (negative
\* ones count from the end), any other index is an IndexError.
IndexOk(k) == k >= -12 /\ k <= 11

ListItem(k) == signs[(k % 12) + 1]

\* round(x, 2) of x millidegrees, in centidegrees (round half to even).
Round2(x) ==
    LET q == x \div 10
        r == x % 10
    IN  IF r > 5 \/ (r = 5 /\ q % 2 = 1) THEN q + 1 ELSE q

\* round(x) of x millidegrees, in whole degrees (round half to even).
Round0(x) ==
    LET q == x \div 1000
        r == x % 1000
    IN  IF r > 500 \/ (r = 500 /\ q % 2 = 1) THEN q + 1 ELSE q

\* f"{round(degree)}° {sign}" as its pieces.
Label(deg, sign) == <<Round0(deg), "deg ", sign>>

\* The position substituted for a body whose lookup failed (main.py:86-91).
Sentinel ==
    [longitude |-> 0, sign |-> "Unknown", degree |-> 0,
     sign_degree |-> <<"Error">>]

\* A sign index that gives a boundary longitude to the lower sign.
PlanetSignNumCeil(longitude) == ((longitude + 29999) \div 30000) - 1

\* int(longitude // 30) (main.py:71)
PlanetSignNum(longitude) == longitude \div 30000

\* longitude % 30 (main.py:72)
PlanetDegree(longitude) == longitude % 30000

\* The entry built for one body from its longitude (main.py:71-82).
PlanetEntry(longitude) ==
    [longitude   |-> Round2(longitude),
     sign        |-> ListItem(PlanetSignNum(longitude)),
     degree      |-> Round2(PlanetDegree(longitude)),
     sign_degree |-> Label(PlanetDegree(longitude),
                           ListItem(PlanetSignNum(longitude)))]

\* int(house_longitude // 30) (main.py:107, 121, 124)
HouseSignNum(house_longitude) == house_longitude \div 30000

\* house_longitude % 30 (main.py:108, 122, 125)
HouseDegree(house_longitude) == house_longitude % 30000

\* The entry built for a cusp, the Ascendant or the Midheaven
\* (main.py:106-115, 121-139).
HouseEntry(house_longitude) ==
    [longitude   |-> Round2(house_longitude),
     sign        |-> ListItem(HouseSignNum(house_longitude)),
     degree      |-> Round2(HouseDegree(house_longitude)),
     sign_degree |-> Label(HouseDegree(house_longitude),
                           ListItem(HouseSignNum(house_longitude)))]

----------------------------------------------------------------------------
(* The ephemeris engine (swisseph), an external collaborator.  One outcome *)
(* of swe.calc_ut is [ok, lon]: the call raised, or it returned longitude   *)
(* lon (millidegrees).  One outcome of swe.houses is [ok, cusps, ascmc].   *)

\* The dictionary `planets` (main.py:49-60), in insertion order.
BodyNames ==
    <<"sun", "moon", "mercury", "venus", "mars",
      "jupiter", "saturn", "uranus", "neptune", "pluto">>

Bodies == {BodyNames[i] : i \in 1..Len(BodyNames)}

\* f'house_{i+1}' for i in range(12) (main.py:105, 110).
HouseNames ==
    <<"house_1", "house_2", "house_3", "house_4", "house_5", "house_6",
      "house_7", "house_8", "house_9", "house_10", "house_11", "house_12">>

HouseKeys ==
    {HouseNames[i] : i \in 1..Len(HouseNames)} \cup {"ascendant", "midheaven"}

\* Longitudes the engine is taken to return: ordinary values, the sign
\* boundaries, values that round up to the next sign, and values outside
\* [0, 360).  None is a tie of round(x, 2).
LonSamples == {0, 29996, 30000, 45500, 359999, 360000, -1, -360001}

InRange(lon) == lon >= 0 /\ lon < 360000

\* An ordinary in-range longitude for the i-th value of a chart.
TypicalLon(i) == (i * 37000 + 12340) % 360000

\* Sets of bodies whose lookup raises.
FailSets ==
    { {}, {"sun"}, {"pluto"}, {"moon", "mars"}, Bodies \ {"venus"}, Bodies }

SpecialBodies == {"sun", "pluto"}

BodyIndex(b) == CHOOSE i \in 1..Len(BodyNames) : BodyNames[i] = b

\* The outcomes of the ten swe.calc_ut calls of one request.
PlanetOutcomes ==
    { [b \in Bodies |->
          IF b \in F THEN [ok |-> FALSE, lon |-> 0]
          ELSE [ok |-> TRUE,
                lon |-> IF b = sb THEN sl ELSE TypicalLon(BodyIndex(b))]] :
      F \in FailSets, sb \in SpecialBodies, sl \in LonSamples }

\* Positions in the 14 values of swe.houses that take a sample longitude:
\* cusp 1, cusp 12, and the Midheaven (14).
SpecialSlots == {1, 12, 14}

HousesRaised == [ok |-> FALSE, cusps |-> <<>>, ascmc |-> <<>>]

\* The outcomes of the swe.houses call of one request.
HouseOutcomes ==
    {HousesRaised} \cup
    { [ok    |-> TRUE,
       cusps |-> [i \in 1..12 |-> IF i = k THEN sl ELSE TypicalLon(i)],
       ascmc |-> <<IF k = 13 THEN sl ELSE TypicalLon(13),
                   IF k = 14 THEN sl ELSE TypicalLon(14)>>] :
      k \in SpecialSlots, sl \in LonSamples }

----------------------------------------------------------------------------
(* get_planet_positions and calculate_houses. *)

\* One iteration of the loop of get_planet_positions (main.py:64-91): the
\* try block raises when the engine call raises or signs[sign_num] is out
\* of range, and the except block substitutes the sentinel.
PlanetPosition(outcome) ==
    IF outcome.ok /\ IndexOk(PlanetSignNum(outcome.lon))
    THEN PlanetEntry(outcome.lon)
    ELSE Sentinel

\* get_planet_positions (main.py:47-93): an entry for every body.
get_planet_positions(pe) == [b \in Bodies |-> PlanetPosition(pe[b])]

\* The empty dict returned by calculate_houses on failure (main.py:145).
EmptyHouses == [k \in {} |-> Sentinel]

\* Whether the try block of calculate_houses completes (main.py:97-141).
HousesComplete(he) ==
    /\ he.ok
    /\ \A i \in 1..12 : IndexOk(HouseSignNum(he.cusps[i]))
    /\ IndexOk(HouseSignNum(he.ascmc[1]))
    /\ IndexOk(HouseSignNum(he.ascmc[2]))

\* The dict house_positions of a completed try block (main.py:101-141).
HousePositions(he) ==
    [k \in HouseKeys |->
        IF k = "ascendant" THEN HouseEntry(he.ascmc[1])
        ELSE IF k = "midheaven" THEN HouseEntry(he.ascmc[2])
        ELSE HouseEntry(he.cusps[CHOOSE i \in 1..12 : HouseNames[i] = k])]

\* A house computation that keeps what it converted and marks the rest.
calculate_houses_partial(he) ==
    IF ~he.ok THEN EmptyHouses
    ELSE [k \in HouseKeys |->
            LET lon == IF k = "ascendant" THEN he.ascmc[1]
                       ELSE IF k = "midheaven" THEN he.ascmc[2]
                       ELSE he.cusps[CHOOSE i \in 1..12 : HouseNames[i] = k]
            IN  IF IndexOk(HouseSignNum(lon)) THEN HouseEntry(lon) ELSE Sentinel]

\* calculate_houses (main.py:95-145)
calculate_houses(he) ==
    IF HousesComplete(he) THEN HousePositions(he) ELSE EmptyHouses

----------------------------------------------------------------------------
(* Requests. *)

\* Worker slots; each serves one request at a time.
Workers == {1, 2}

S_1990_01_01 == <<"1","9","9","0","-","0","1","-","0","1">>
S_2024_02_29 == <<"2","0","2","4","-","0","2","-","2","9">>
S_1990_1_1   == <<"1","9","9","0","-","1","-","1">>
S_0001_01_01 == <<"0","0","0","1","-","0","1","-","0","1">>
S_1990_02_30 == <<"1","9","9","0","-","0","2","-","3","0">>
S_slashes    == <<"1","9","9","0","/","0","1","/","0","1">>
S_90_01_01   == <<"9","0","-","0","1","-","0","1">>

S_12_00 == <<"1","2",":","0","0">>
S_0_5   == <<"0",":","5">>
S_23_59 == <<"2","3",":","5","9">>
S_24_00 == <<"2","4",":","0","0">>
S_1200  == <<"1","2","0","0">>

S_41_0082 == <<"4","1",".","0","0","8","2">>
S_m33_5   == <<"-","3","3",".","5">>
S_28_9784 == <<"2","8",".","9","7","8","4">>
S_abc     == <<"a","b","c">>
S_3       == <<"3">>
S_m5      == <<"-","5">>
S_3_5     == <<"3",".","5">>

\* Values a query string or a JSON object may hold for each field.
DateSamples ==
    {Missing, Str(<<>>), Str(S_1990_01_01), Str(S_2024_02_29), Str(S_1990_1_1),
     Str(S_0001_01_01), Str(S_1990_02_30), Str(S_slashes), Str(S_90_01_01)}

TimeSamples ==
    {Missing, Str(<<>>), Str(S_12_00), Str(S_0_5), Str(S_23_59),
     Str(S_24_00), Str(S_1200)}

LatitudeSamples  == {Missing, Str(S_41_0082), Str(S_m33_5), Str(S_abc), Str(<<>>)}

LongitudeSamples == {Missing, Str(S_28_9784), Str(S_abc)}

OffsetSamples    == {Missing, Str(S_3), Str(S_m5), Str(S_3_5), Str(S_abc)}

\* Values only a JSON body can hold: null and numbers.
JsonDateSamples     == {Null, Num(0), Num(1990)}
JsonTimeSamples     == {Null, Num(12)}
JsonLatitudeSamples == {Null, Num(41)}
JsonOffsetSamples   == {Null, Num(2)}

\* The scenario of the specification: 1990-01-01 12:00 with the defaults.
Baseline ==
    [k \in FieldNames |->
        CASE k = "birth_date" -> Str(S_1990_01_01)
          [] k = "birth_time" -> Str(S_12_00)
          [] OTHER            -> Missing]

AllMissing == [k \in FieldNames |-> Missing]

WithField(f, k, v) == [f EXCEPT ![k] = v]

\* Query strings: the baseline with at most two fields replaced.
QuerySamples(k) ==
    CASE k = "birth_date" -> DateSamples
      [] k = "birth_time" -> TimeSamples
      [] k = "latitude"   -> LatitudeSamples
      [] k = "longitude"  -> LongitudeSamples
      [] OTHER            -> OffsetSamples

QueryFields ==
    { WithField(WithField(Baseline, k1, v1), k2, v2) :
        <<k1, v1, k2, v2>> \in
            UNION { {k1} \X QuerySamples(k1) \X {k2} \X QuerySamples(k2) :
                    <<k1, k2>> \in FieldNames \X FieldNames } }
    \cup {AllMissing}

JsonSamples(k) ==
    CASE k = "birth_date" -> JsonDateSamples
      [] k = "birth_time" -> JsonTimeSamples
      [] k = "latitude"   -> JsonLatitudeSamples
      [] k = "longitude"  -> {Null}
      [] OTHER            -> JsonOffsetSamples

\* JSON objects: the baseline with one field replaced by a JSON-only value
\* and at most one other by a string sample.
JsonFields ==
    { WithField(WithField(Baseline, k2, v2), k1, v1) :
        <<k1, v1, k2, v2>> \in
            UNION { {k1} \X JsonSamples(k1) \X {k2} \X QuerySamples(k2) :
                    <<k1, k2>> \in FieldNames \X FieldNames } }
    \cup {Baseline, AllMissing}

Dict(f) == [shape |-> "dict", f |-> f]

\* request.args.to_dict() (main.py:163): always a dict of strings.
GetRequests ==
    { [path |-> "/api/horoscope", method |-> "GET", data |-> Dict(f)] :
      f \in QueryFields }

\* request.get_json() (main.py:161): a dict, None (the body `null`), a
\* non-object such as a list, or an exception (no JSON body at all).
PostRequests ==
    { [path |-> "/api/horoscope", method |-> "POST", data |-> Dict(f)] :
      f \in JsonFields }
    \cup
    { [path |-> "/api/horoscope", method |-> "POST",
       data |-> [shape |-> sh, f |-> AllMissing]] :
      sh \in {"none", "list", "raise"} }

HealthRequest ==
    [path |-> "/health", method |-> "GET", data |-> Dict(AllMissing)]

Requests == GetRequests \cup PostRequests \cup {HealthRequest}

----------------------------------------------------------------------------
(* The state of one worker. *)

NoResponse == [status |-> 0]

NoPositions == [b \in {} |-> Sentinel]

NotCalled == [b \in {} |-> [ok |-> FALSE, lon |-> 0]]

NoCalls == [calculate_julian_day |-> 0, julday |-> 0, calc_ut |-> 0, houses |-> 0]

\* A worker with no request: every local of calculate_horoscope unbound.
Idle ==
    [pc              |-> "idle",
     input           |-> HealthRequest,
     birth_date      |-> Null,
     birth_time      |-> Null,
     latitude        |-> 0,
     longitude       |-> 0,
     timezone_offset |-> 0,
     julian_day      |-> NoJD,
     planets         |-> NoPositions,
     houses          |-> EmptyHouses,
     engPlanets      |-> NotCalled,      \* what swe.calc_ut answered
     engHouses       |-> HousesRaised,   \* what swe.houses answered
     calls           |-> NoCalls,        \* calls made so far for this request
     sent            |-> 0,              \* responses sent for this request
     resp            |-> NoResponse]

\* swe.set_ephe_path('./sweph') at import (main.py:11)
EphePath == "./sweph"

Init ==
    /\ ephe_path = EphePath
    /\ now = 0
    /\ req = [r \in Workers |-> Idle]

----------------------------------------------------------------------------
(* Responses. *)

\* jsonify of `data` in the except block (main.py:228): {} when `data` was
\* never bound.
EchoData(d) == IF d.shape = "raise" THEN [shape |-> "dict", f |-> AllMissing] ELSE d

\* The except block of calculate_horoscope (main.py:224-229).
Response500(d, msg) ==
    [status     |-> 500,
     success    |-> FALSE,
     error      |-> <<"Calculation error: ", msg>>,
     input_data |-> EchoData(d)]

\* main.py:174-183
Response400Required ==
    [status  |-> 400,
     success |-> FALSE,
     error   |-> <<"birth_date and birth_time are required">>,
     example |-> [birth_date |-> S_1990_01_01, birth_time |-> S_12_00,
                  latitude |-> 410082, longitude |-> 289784]]

\* main.py:190-193
Response400Format ==
    [status  |-> 400,
     success |-> FALSE,
     error   |-> <<"Invalid date or time format">>]

\* A success response that also stamps its message with the time.
Response200Stamped(q, calculation_time) ==
    [status     |-> 200,
     success    |-> TRUE,
     message    |-> <<"Horoscope calculated successfully", calculation_time>>,
     input_data |-> [birth_date      |-> q.birth_date,
                     birth_time      |-> q.birth_time,
                     latitude        |-> q.latitude,
                     longitude       |-> q.longitude,
                     timezone_offset |-> q.timezone_offset,
                     julian_day      |-> RoundJD(q.julian_day)],
     planets    |-> q.planets,
     houses     |-> q.houses,
     chart_info |-> [calculation_time |-> calculation_time,
                     ephemeris        |-> "Swiss Ephemeris",
                     house_system     |-> "Placidus"]]

\* main.py:202-222
Response200(q, calculation_time) ==
    [status     |-> 200,
     success    |-> TRUE,
     message    |-> <<"Horoscope calculated successfully">>,
     input_data |-> [birth_date      |-> q.birth_date,
                     birth_time      |-> q.birth_time,
                     latitude        |-> q.latitude,
                     longitude       |-> q.longitude,
                     timezone_offset |-> q.timezone_offset,
                     julian_day      |-> RoundJD(q.julian_day)],
     planets    |-> q.planets,
     houses     |-> q.houses,
     chart_info |-> [calculation_time |-> calculation_time,
                     ephemeris        |-> "Swiss Ephemeris",
                     house_system     |-> "Placidus"]]

\* main.py:150-154
ResponseHealth ==
    [status  |-> 200,
     health  |-> "healthy",
     message |-> "Swiss Ephemeris API is running",
     version |-> "1.0.0"]

\* Returning a response ends the handler.
Return(q, response) ==
    [q EXCEPT !.pc = "done", !.resp = response, !.sent = q.sent + 1]

----------------------------------------------------------------------------
(* Actions. *)

\* A request arrives at an idle worker; RQ is the set it is drawn from.
Receive(r, RQ) ==
    /\ req[r].pc = "idle"
    /\ \E input \in RQ :
          req' = [req EXCEPT ![r] = [Idle EXCEPT !.pc = "received",
                                                 !.input = input]]
    /\ UNCHANGED <<ephe_path, now>>

\* health_check (main.py:147-154)
HealthCheck(r) ==
    /\ req[r].pc = "received"
    /\ req[r].input.path = "/health"
    /\ req' = [req EXCEPT ![r] = Return(req[r], ResponseHealth)]
    /\ UNCHANGED <<ephe_path, now>>

\* The default of an optional field is a number already (main.py:168-170).
FloatField(d, k, default) ==
    IF d.f[k].t = "missing" THEN Ok(default) ELSE ToFloat(d.f[k])

IntField(d, k, default) ==
    IF d.f[k].t = "missing" THEN Ok(default) ELSE ToInt(d.f[k])

\* What main.py:160-170 raise, if anything: get_json itself, .get on a
\* value that is no dict, or the first conversion that fails.
ExtractError(d) ==
    CASE d.shape = "raise" -> "request body is not JSON"
      [] d.shape = "none"  -> "'NoneType' object has no attribute 'get'"
      [] d.shape = "list"  -> "'list' object has no attribute 'get'"
      [] OTHER ->
           With(<<FloatField(d, "latitude", 410082),
                  FloatField(d, "longitude", 289784),
                  IntField(d, "timezone_offset", 3)>>, LAMBDA c :
               IF ~c[1].ok THEN c[1].err
               ELSE IF ~c[2].ok THEN c[2].err
               ELSE IF ~c[3].ok THEN c[3].err
               ELSE "")

\* The locals bound by main.py:166-170 when nothing raised.
Extracted(q) ==
    LET d == q.input.data
    IN  [q EXCEPT !.pc = "extracted",
                  !.birth_date = Get(d, "birth_date"),
                  !.birth_time = Get(d, "birth_time"),
                  !.latitude = FloatField(d, "latitude", 410082).val,
                  !.longitude = FloatField(d, "longitude", 289784).val,
                  !.timezone_offset = IntField(d, "timezone_offset", 3).val]

\* A handler that raised and did not catch would leave the request without
\* a response.
ExtractParamsUncaught(r) ==
    /\ req[r].pc = "received"
    /\ req[r].input.path = "/api/horoscope"
    /\ ExtractError(req[r].input.data) = ""
    /\ req' = [req EXCEPT ![r] = Extracted(req[r])]
    /\ UNCHANGED <<ephe_path, now>>

\* calculate_horoscope, main.py:159-170: read the body and its fields; an
\* exception goes to the except block (main.py:224-229).
ExtractParams(r) ==
    /\ req[r].pc = "received"
    /\ req[r].input.path = "/api/horoscope"
    /\ \E err \in {ExtractError(req[r].input.data)} :
          req' = [req EXCEPT ![r] =
                    IF err # ""
                    THEN Return(req[r], Response500(req[r].input.data, err))
                    ELSE Extracted(req[r])]
    /\ UNCHANGED <<ephe_path, now>>

\* `not birth_date or not birth_time` (main.py:173)
RequiredMissing(q) == ~Truthy(q.birth_date) \/ ~Truthy(q.birth_time)

\* calculate_horoscope, main.py:172-183
Validate(r) ==
    /\ req[r].pc = "extracted"
    /\ req' = [req EXCEPT ![r] =
                 IF RequiredMissing(req[r])
                 THEN Return(req[r], Response400Required)
                 ELSE [req[r] EXCEPT !.pc = "validated"]]
    /\ UNCHANGED <<ephe_path, now>>

\* calculate_horoscope, main.py:185-193; swe.julday is reached only when
\* both strings parsed and the UTC shift stayed in range (main.py:40).
JulianDay(r) ==
    /\ req[r].pc = "validated"
    /\ \E jd \in {calculate_julian_day(req[r].birth_date, req[r].birth_time,
                                       req[r].timezone_offset)} :
          LET q == req[r]
              c == [q.calls EXCEPT !.calculate_julian_day = @ + 1,
                                   !.julday = @ + (IF jd.ok THEN 1 ELSE 0)]
          IN  req' = [req EXCEPT ![r] =
                        IF ~jd.ok
                        THEN Return([q EXCEPT !.calls = c], Response400Format)
                        ELSE [q EXCEPT !.pc = "julian_day", !.calls = c,
                                       !.julian_day = jd]]
    /\ UNCHANGED <<ephe_path, now>>

\* calculate_horoscope, main.py:196: one swe.calc_ut call per body; PO is
\* the set of engine outcomes considered.
Planets(r, PO) ==
    /\ req[r].pc = "julian_day"
    /\ \E pe \in PO :
          req' = [req EXCEPT ![r] =
                    [req[r] EXCEPT !.pc = "planets",
                                   !.engPlanets = pe,
                                   !.calls.calc_ut = @ + Len(BodyNames),
                                   !.planets = get_planet_positions(pe)]]
    /\ UNCHANGED <<ephe_path, now>>

\* calculate_horoscope, main.py:199: one swe.houses call; HO is the set of
\* engine outcomes considered.
Houses(r, HO) ==
    /\ req[r].pc = "planets"
    /\ \E he \in HO :
          req' = [req EXCEPT ![r] =
                    [req[r] EXCEPT !.pc = "houses",
                                   !.engHouses = he,
                                   !.calls.houses = @ + 1,
                                   !.houses = calculate_houses(he)]]
    /\ UNCHANGED <<ephe_path, now>>

\* calculate_horoscope, main.py:201-222
Respond(r) ==
    /\ req[r].pc = "houses"
    /\ req' = [req EXCEPT ![r] = Return(req[r], Response200(req[r], now))]
    /\ UNCHANGED <<ephe_path, now>>

\* The request/response cycle ends; nothing of it is kept.
Close(r) ==
    /\ req[r].pc = "done"
    /\ req' = [req EXCEPT ![r] = Idle]
    /\ UNCHANGED <<ephe_path, now>>

\* Time passes.
Tick ==
    /\ now < MaxClock
    /\ now' = now + 1
    /\ UNCHANGED <<ephe_path, req>>

\* The steps of one request on worker r.
Handle(r, PO, HO) ==
    \/ HealthCheck(r)
    \/ ExtractParams(r)
    \/ Validate(r)
    \/ JulianDay(r)
    \/ Planets(r, PO)
    \/ Houses(r, HO)
    \/ Respond(r)

\* One worker: requests served one after the other, over every sample
\* request and engine outcome.
Next ==
    \/ Receive(1, Requests)
    \/ Handle(1, PlanetOutcomes, HouseOutcomes)
    \/ Close(1)
    \/ Tick

Spec == Init /\ [][Next]_vars

\* Engine outcomes followed when only whether the engine failed matters.
FewPlanetOutcomes ==
    { pe \in PlanetOutcomes :
        \A b \in Bodies : pe[b].ok => pe[b].lon = TypicalLon(BodyIndex(b)) }
    \cup
    { pe \in PlanetOutcomes :
        /\ \A b \in Bodies : pe[b].ok
        /\ pe["sun"].lon \in {30000, 360000} }

FewHouseOutcomes ==
    { he \in HouseOutcomes : ~he.ok \/ he.cusps[1] \in {0, 360000} }

NextLive ==
    \/ Receive(1, Requests)
    \/ Handle(1, FewPlanetOutcomes, FewHouseOutcomes)
    \/ Close(1)
    \/ Tick

\* The handler is straight-line code over calls that return: a request that
\* has been received keeps being served.
SpecLive ==
    Init /\ [][NextLive]_vars /\ WF_vars(Handle(1, FewPlanetOutcomes, FewHouseOutcomes))

\* Requests followed when two workers run side by side.
ConcRequests ==
    { HealthRequest,
      [path |-> "/api/horoscope", method |-> "GET", data |-> Dict(Baseline)],
      [path |-> "/api/horoscope", method |-> "POST", data |-> Dict(Baseline)],
      [path |-> "/api/horoscope", method |-> "GET",
       data |-> Dict(WithField(Baseline, "timezone_offset", Str(S_m5)))],
      [path |-> "/api/horoscope", method |-> "GET",
       data |-> Dict(WithField(Baseline, "birth_date", Missing))],
      [path |-> "/api/horoscope", method |-> "GET",
       data |-> Dict(WithField(Baseline, "latitude", Str(S_abc)))],
      [path |-> "/api/horoscope", method |-> "GET",
       data |-> Dict(WithField(Baseline, "birth_time", Str(S_24_00)))] }

ConcPlanetOutcomes ==
    { pe \in FewPlanetOutcomes :
        \A b \in Bodies \ {"sun"} : pe[b].ok }

ConcHouseOutcomes ==
    { he \in FewHouseOutcomes : ~he.ok \/ he.cusps[1] = 0 }

\* Two workers serving requests concurrently.
NextConc ==
    \/ \E r \in Workers : Receive(r, ConcRequests)
    \/ \E r \in Workers : Handle(r, ConcPlanetOutcomes, ConcHouseOutcomes)
    \/ \E r \in Workers : Close(r)
    \/ Tick

SpecConc == Init /\ [][NextConc]_vars

----------------------------------------------------------------------------
(* Vocabulary of the properties, stated apart from the operators above. *)

\* A horoscope request that has been answered.
Served(q) == q.pc = "done" /\ q.input.path = "/api/horoscope"

TenBodies ==
    {"sun", "moon", "mercury", "venus", "mars",
     "jupiter", "saturn", "uranus", "neptune", "pluto"}

FourteenHouseKeys ==
    {"house_1", "house_2", "house_3", "house_4", "house_5", "house_6",
     "house_7", "house_8", "house_9", "house_10", "house_11", "house_12",
     "ascendant", "midheaven"}

ZodiacNames ==
    <<"Aries", "Taurus", "Gemini", "Cancer", "Leo", "Virgo",
      "Libra", "Scorpio", "Sagittarius", "Capricorn", "Aquarius", "Pisces">>

TwelveSigns == {ZodiacNames[k] : k \in 1..12}

\* sign is the k-th name, where lon lies in [30k, 30k + 30) degrees.
SignIs(sign, lon) ==
    \E k \in 0..11 :
        /\ 30000 * k <= lon
        /\ lon < 30000 * (k + 1)
        /\ sign = ZodiacNames[k + 1]

\* birth_date / birth_time absent from the request, or empty.
FieldAbsent(d, k) ==
    \/ d.shape # "dict"
    \/ d.f[k].t \in {"missing", "null"}
    \/ (d.f[k].t = "str" /\ Len(d.f[k].s) = 0)

\* The request supplies both required fields.
SuppliesBoth(d) ==
    /\ d.shape = "dict"
    /\ ~FieldAbsent(d, "birth_date")
    /\ ~FieldAbsent(d, "birth_time")
    /\ d.f["birth_date"] # Num(0)
    /\ d.f["birth_time"] # Num(0)

\* The optional fields are absent or numeric.
NumericOptional(d) ==
    /\ d.shape = "dict"
    /\ d.f["latitude"] \in {Missing, Str(S_41_0082), Str(S_m33_5), Num(41)}
    /\ d.f["longitude"] \in {Missing, Str(S_28_9784)}
    /\ d.f["timezone_offset"] \in {Missing, Str(S_3), Str(S_m5), Num(2)}

\* The sample strings that are dates written YYYY-MM-DD, and times HH:MM.
ValidDateStrings == {S_1990_01_01, S_2024_02_29, S_1990_1_1, S_0001_01_01}

ValidTimeStrings == {S_12_00, S_0_5, S_23_59}

Parseable(v, valid) == v.t = "str" /\ v.s \in valid

\* A longitude whose sign index lies outside the list of signs.
ConversionFails(lon) == lon >= 360000 \/ lon < -360000

\* The house computation failed: the call, or one of the 14 conversions.
HouseFailure(he) ==
    \/ ~he.ok
    \/ /\ he.ok
       /\ \/ \E i \in 1..12 : ConversionFails(he.cusps[i])
          \/ \E j \in 1..2 : ConversionFails(he.ascmc[j])

\* Every engine call made for the request succeeded and returned a
\* longitude in [0, 360).
EngineAllGood(q) ==
    /\ \A b \in DOMAIN q.engPlanets :
          q.engPlanets[b].ok /\ InRange(q.engPlanets[b].lon)
    /\ q.calls.houses > 0 =>
          /\ q.engHouses.ok
          /\ \A i \in 1..12 : InRange(q.engHouses.cusps[i])
          /\ \A j \in 1..2 : InRange(q.engHouses.ascmc[j])

\* The entries of a position map.
Entries(m) == {m[k] : k \in DOMAIN m}

----------------------------------------------------------------------------
(* C1.  A /api/horoscope request whose birth_date or birth_time is missing *)
(* or empty is answered 400 with success false and an `example` field,     *)
(* whatever the other fields and the shape of the body, and no Julian Day  *)
(* conversion or engine call is made for it.                               *)
C1_MissingRequiredIs400 ==
    \A r \in Workers :
        LET q == req[r]
        IN  ( /\ Served(q)
              /\ \/ FieldAbsent(q.input.data, "birth_date")
                 \/ FieldAbsent(q.input.data, "birth_time") )
            => /\ q.resp.status = 400
               /\ q.resp.success = FALSE
               /\ "example" \in DOMAIN q.resp
               /\ q.calls = NoCalls

(* C2.  Whatever set of bodies has a failing engine lookup, the positions  *)
(* hold an entry for all ten bodies, exactly the sentinel for each failed  *)
(* body and a real sign decomposition for every other body, and the        *)
(* request ends in a 200 success response.                                 *)
C2_OnlyFailedBodiesAreSentinels ==
    \A r \in Workers :
        LET q == req[r]
        IN  q.calls.calc_ut > 0 =>
              /\ DOMAIN q.planets = TenBodies
              /\ \A b \in TenBodies :
                    IF q.engPlanets[b].ok
                    THEN /\ q.planets[b].sign \in TwelveSigns
                         /\ q.planets[b].sign_degree # <<"Error">>
                    ELSE q.planets[b] =
                           [longitude |-> 0, sign |-> "Unknown",
                            degree |-> 0, sign_degree |-> <<"Error">>]
              /\ q.pc = "done" => (q.resp.status = 200 /\ q.resp.success)

(* C3.  When the house computation fails (the engine call, or the          *)
(* conversion of any of the 14 longitudes), calculate_houses returns an    *)
(* empty mapping, never a partial one, and the request still ends in a 200 *)
(* success response whose planets section is what the planet lookups gave. *)
C3_HouseFailureGivesEmptyHouses ==
    \A r \in Workers :
        LET q == req[r]
        IN  (q.calls.houses > 0 /\ HouseFailure(q.engHouses)) =>
              /\ DOMAIN q.houses = {}
              /\ q.planets = get_planet_positions(q.engPlanets)
              /\ q.pc = "done" =>
                    /\ q.resp.status = 200
                    /\ q.resp.success
                    /\ DOMAIN q.resp.houses = {}
                    /\ q.resp.planets = get_planet_positions(q.engPlanets)

\* A served request whose house call returned, with a cusp that cannot be
\* converted, next to planets that could.
C3_Witness ==
    \E r \in Workers :
        /\ Served(req[r])
        /\ req[r].engHouses.ok
        /\ HouseFailure(req[r].engHouses)
        /\ req[r].resp.status = 200
        /\ DOMAIN req[r].resp.houses = {}
        /\ \A b \in TenBodies : req[r].resp.planets[b].sign \in TwelveSigns

C5_Answer ==
    \A r \in Workers :
        LET q == req[r]
        IN  IF q.pc = "done"
            THEN /\ q.sent = 1
                 /\ q.resp.status \in {200, 400, 500}
                 /\ q.resp.status = 500 =>
                       /\ q.resp.success = FALSE
                       /\ Len(q.resp.error) = 2
                       /\ q.resp.error[2] # ""
                       /\ "input_data" \in DOMAIN q.resp
            ELSE q.sent = 0 /\ q.resp = NoResponse

(* C5.  Every request, whatever its input and whatever the engine does,    *)
(* eventually ends in exactly one response with status 200, 400 or 500;    *)
(* a 500 response carries success false, the exception message and an     *)
(* input_data echo.                                                        *)
C5_EveryRequestAnswered ==
    /\ []C5_Answer
    /\ \A r \in Workers : (req[r].pc = "received") ~> (req[r].pc = "done")

\* A request whose body is no JSON object, answered 500 with its echo.
C5_Witness ==
    \E r \in Workers :
        /\ Served(req[r])
        /\ req[r].input.data.shape = "list"
        /\ req[r].resp.status = 500
        /\ req[r].resp.input_data = req[r].input.data
        /\ req[r].sent = 1

(* C6.  A request with parseable birth_date and birth_time and numeric     *)
(* optional fields, for which every engine call succeeds with longitudes   *)
(* in [0,360), is answered 200 with exactly the 10 planet keys, exactly    *)
(* the 14 house keys, and input_data.julian_day populated.                 *)
C6_ValidRequestGivesFullChart ==
    \A r \in Workers :
        LET q == req[r]
            d == q.input.data
        IN  ( /\ Served(q)
              /\ SuppliesBoth(d)
              /\ NumericOptional(d)
              /\ Parseable(d.f["birth_date"], ValidDateStrings)
              /\ Parseable(d.f["birth_time"], ValidTimeStrings)
              /\ EngineAllGood(q) )
            => /\ q.resp.status = 200
               /\ q.resp.success
               /\ DOMAIN q.resp.planets = TenBodies
               /\ DOMAIN q.resp.houses = FourteenHouseKeys
               /\ q.resp.input_data.julian_day.day > 0

\* A response with its calculation_time left out.
WithoutTime(resp) ==
    IF "chart_info" \in DOMAIN resp
    THEN [resp EXCEPT !.chart_info.calculation_time = 0]
    ELSE resp

\* The process-wide state is as set at start, and two answered requests
\* with the same fields and the same engine results have the same response
\* apart from calculation_time.
C7_SameRequestSameResponse ==
    /\ ephe_path = "./sweph"
    /\ \A r1, r2 \in Workers :
          ( /\ req[r1].pc = "done"
            /\ req[r2].pc = "done"
            /\ req[r1].input = req[r2].input
            /\ req[r1].engPlanets = req[r2].engPlanets
            /\ req[r1].engHouses = req[r2].engHouses )
          => WithoutTime(req[r1].resp) = WithoutTime(req[r2].resp)

\* A step of one request leaves every other request as it is.
C7_StepIsLocal ==
    /\ ephe_path' = ephe_path
    /\ \A r1, r2 \in Workers :
          (r1 # r2 /\ req'[r1] # req[r1]) => req'[r2] = req[r2]

(* C7.  Requests are independent: over any interleaving of /health and     *)
(* /api/horoscope requests no request changes process-wide state, and a    *)
(* response, apart from chart_info.calculation_time, is determined by the  *)
(* request's own fields and the engine's results for it.                   *)
C7_RequestsIndependent ==
    /\ []C7_SameRequestSameResponse
    /\ [][C7_StepIsLocal]_vars

\* Two workers that answered the same request at different times.
C7_Witness ==
    /\ req[1].pc = "done"
    /\ req[2].pc = "done"
    /\ req[1].input = req[2].input
    /\ req[1].resp.status = 200
    /\ req[2].resp.status = 200
    /\ "chart_info" \in DOMAIN req[1].resp
    /\ "chart_info" \in DOMAIN req[2].resp
    /\ req[1].resp.chart_info.calculation_time
         # req[2].resp.chart_info.calculation_time
    /\ req[1].engPlanets = req[2].engPlanets
    /\ req[1].engHouses = req[2].engHouses

(* C8.  For every longitude L in [0,360) the sign of a planet, house cusp, *)
(* Ascendant or Midheaven is the name at index floor(L/30) of Aries ..     *)
(* Pisces: a longitude on a boundary gets the higher sign, and planets and *)
(* house points use the same mapping.                                      *)
C8_SignIsFloorOfLongitude ==
    \A r \in Workers :
        LET q  == req[r]
            he == q.engHouses
        IN  /\ \A b \in DOMAIN q.engPlanets :
                  (q.engPlanets[b].ok /\ InRange(q.engPlanets[b].lon)) =>
                      SignIs(q.planets[b].sign, q.engPlanets[b].lon)
            /\ DOMAIN q.houses # {} =>
                  /\ \A i \in 1..12 :
                        InRange(he.cusps[i]) =>
                            SignIs(q.houses[HouseNames[i]].sign, he.cusps[i])
                  /\ InRange(he.ascmc[1]) =>
                        SignIs(q.houses["ascendant"].sign, he.ascmc[1])
                  /\ InRange(he.ascmc[2]) =>
                        SignIs(q.houses["midheaven"].sign, he.ascmc[2])

\* The Sun and the first cusp both exactly at 30 degrees: both in Taurus.
C8_Witness ==
    \E r \in Workers :
        /\ req[r].pc = "houses"
        /\ req[r].engPlanets["sun"] = [ok |-> TRUE, lon |-> 30000]
        /\ req[r].planets["sun"].sign = "Taurus"
        /\ req[r].engHouses.ok
        /\ req[r].engHouses.cusps[1] = 30000
        /\ DOMAIN req[r].houses = FourteenHouseKeys
        /\ req[r].houses["house_1"].sign = "Taurus"

(* C9.  The longitude-to-sign conversion fails on no longitude the engine  *)
(* returns, below 0 and 360 or more included: a returned longitude always  *)
(* yields one of the 12 signs, never the sentinel and never empty houses.  *)
C9_ConversionNeverFails ==
    \A r \in Workers :
        LET q == req[r]
        IN  /\ \A b \in DOMAIN q.engPlanets :
                  q.engPlanets[b].ok => q.planets[b].sign \in TwelveSigns
            /\ (q.calls.houses > 0 /\ q.engHouses.ok) =>
                  /\ DOMAIN q.houses = FourteenHouseKeys
                  /\ \A e \in Entries(q.houses) : e.sign \in TwelveSigns

\* degree is in [0, 30) and the label's degree is within 1 of it.
DegreeInSign(e) ==
    /\ e.degree >= 0
    /\ e.degree < 3000
    /\ Len(e.sign_degree) = 3 =>
          /\ 100 * e.sign_degree[1] - e.degree <= 100
          /\ e.degree - 100 * e.sign_degree[1] <= 100

(* C10.  For every longitude the engine can return, negative ones          *)
(* included, the `degree` field (longitude modulo 30 rounded to 2          *)
(* decimals) is at least 0 and strictly less than 30, and the integer      *)
(* degree of the `sign_degree` label differs from it by at most 1.         *)
C10_DegreeWithinSign ==
    \A r \in Workers :
        /\ \A e \in Entries(req[r].planets) : DegreeInSign(e)
        /\ \A e \in Entries(req[r].houses) : DegreeInSign(e)

====
